---- MODULE Spec2Model ----
(***************************************************************************)
(* Model of the guitar harmonizer of src/src/harmonizer.cpp: the           *)
(* zero-crossing pitch detector (ZeroCrossingPitchDetector) and the        *)
(* per-block / per-sample audio callback (AudioCallback).                  *)
(*                                                                         *)
(* Numbers.  The program computes in IEEE single floats.  Here a float of  *)
(* the unit range (samples, envelope, certainty, knobs) is a fixed-point   *)
(* integer with ONE units for 1.0f, and a frequency is an integer number   *)
(* of 1/FreqOne Hz, and a MIDI note number is an integer number of         *)
(* 1/MidiOne semitones.  Every product with a float constant is the exact  *)
(* product truncated toward zero at one unit (MulQ), the way the float     *)
(* result is rounded at its last bit; comparisons are exact.               *)
(***************************************************************************)
EXTENDS Integers, Sequences, FiniteSets, TLC

VARIABLES
    \* ZeroCrossingPitchDetector fields
    state_, samples_since_last_, freq_, certainty_,
    filtered_in_, dc_block_, prev_in_,
    \* what the last Process() call did (its locals, kept for observation)
    ev, new_freq,
    \* history of the filtered signal's rising crossings, kept for observation
    g_since, g_period, g_rises, g_run, g_regular, g_fell, g_computed,
    \* the signal source feeding Process(): a square wave with a lead-in
    \* and a silent tail
    src_tone, src_left, src_edges, src_tail,
    \* AudioCallback: position, knob readings, globals, the static gate flag
    \* and the indicator
    pc, i, blocks, gate_knob, smooth_gate, env_out, gate_open, gate_was,
    mix_knob, scale_knob, smooth_mix, current_scale, last_target_midi,
    current_vca, is_locked, led,
    \* the other knobs of AudioCallback, their smoothers, and the parameters
    \* handed to the portamento, the filter and the vibrato
    glide_knob, filter_knob, vib_knob, smooth_glide, smooth_filter, smooth_vib,
    htime, cutoff, vib_depth,
    \* locals and outputs of the last iteration of the sample loop
    raw_harm, closest, target_vca, harm_sig, out0, out1,
    \* history of the VCA target, kept for observation
    vca_goal, vca_from, vca_n, att_n,
    \* the surroundings of the callback: the blocks during which the knobs
    \* may move, and the level of an envelope that follows the input (0 when
    \* the envelope is at any level)
    gate_free, par_free, env_level, aux_free, twin_free, scale_free,
    \* the knob state of a second run of the program, and what the samples
    \* of this run have met so far, kept for observation
    twin, ever_locked, blk_locked, adc_in,
    \* the quantizer applied to one given input
    q_pc, q_fund, requant

detVars == <<state_, samples_since_last_, freq_, certainty_,
             filtered_in_, dc_block_, prev_in_>>
obsVars == <<ev, new_freq, g_since, g_period, g_rises, g_run, g_regular,
             g_fell, g_computed>>
srcVars == <<src_tone, src_left, src_edges, src_tail>>
cbVars  == <<pc, i, blocks, gate_knob, smooth_gate, env_out, gate_open, gate_was,
             mix_knob, scale_knob, smooth_mix, current_scale, last_target_midi,
             current_vca, is_locked, led>>
loopVars == <<raw_harm, closest, target_vca, harm_sig, out0, out1>>
vcaVars == <<vca_goal, vca_from, vca_n, att_n>>
envVars == <<gate_free, par_free, env_level, aux_free, twin_free, scale_free>>
knobVars == <<glide_knob, filter_knob, vib_knob, smooth_glide, smooth_filter,
              smooth_vib, htime, cutoff, vib_depth>>
histVars == <<twin, ever_locked, blk_locked, adc_in>>
qVars   == <<q_pc, q_fund, requant>>
vars    == <<detVars, obsVars, srcVars, cbVars, loopVars, vcaVars, envVars,
             qVars, knobVars, histVars>>

----------------------------------------------------------------------------
(* Fixed-point representation of the floats *)

ONE     == 100000000     \* 1.0f
FreqOne == 1000          \* 1.0f Hz
MidiOne == 100           \* 1.0f semitone (a MIDI note number)

Abs(x) == IF x < 0 THEN -x ELSE x

\* x * (n/d), truncated toward zero, without leaving 32 bits
MulQ(x, n, d) ==
    LET a == Abs(x)
        q == ((a \div d) * n) + (((a % d) * n) \div d)
    IN  IF x < 0 THEN -q ELSE q

Min(a, b) == IF a < b THEN a ELSE b
Max(a, b) == IF a > b THEN a ELSE b

----------------------------------------------------------------------------
(* Program constants *)

SampleRate  == 48000                 \* sr_ (hw.AudioSampleRate())
HoldOff     == 30                    \* samples_since_last_ > 30
FreqMin     == 60 * FreqOne          \* new_freq > 60.0f
FreqMax     == 1500 * FreqOne        \* new_freq < 1500.0f
InitFreq    == 440 * FreqOne         \* freq_ = 440.0f
CrossThresh == ONE \div 500          \* 0.002f
DenormFloor == ONE \div 1000000      \* 1e-6f
Confident   == (ONE \div 100) * 85   \* 0.85f
IntMax      == 2147483647            \* INT_MAX of int samples_since_last_

----------------------------------------------------------------------------
(* Bounds of the model *)

Amp        == ONE \div 10    \* amplitude of the source's square wave (0.1)
MaxEdges   == 7              \* edges of the free square wave in one run
MaxTail    == 40             \* silent samples after the free wave's last edge
HalfLens   == {10, 17}       \* half-wave lengths the free source may choose
LeadIns    == {0, 4, 31, 32, 45, 800}  \* silent samples before the first edge

TonePeriods  == {33, 40, 799, 800}  \* periods (in samples) of the fixed tones
ToneLeadIns  == {0, 4}       \* silent samples before a fixed tone
MaxPeriods   == 26           \* periods of a fixed tone in one run

DecayPeriod  == 40           \* period of the tone played before the silence
DecayEdges   == 6            \* its number of edges
MaxSilence   == 185000       \* silent samples after it

BlockSize      == 2          \* samples per audio block (size)
MaxBlocks      == 110        \* audio blocks in one run
KnobFreeBlocks == 2          \* blocks during which the knob may move
KnobReads      == {-(ONE \div 2), 0, ONE \div 2, ONE, ONE + (ONE \div 2)}
ScaleReads     == KnobReads \cup {ONE \div 5, (ONE \div 5) * 3, (ONE \div 5) * 4}

EnvHalf        == ONE \div 8     \* an envelope level that asks for half gain
EnvBurst       == ONE \div 4     \* the envelope level of the burst
EnvBlip        == ONE \div 5000  \* the envelope level of a faint onset
HarmAmp        == ONE \div 2     \* amplitude of the filtered oscillator
VcaTol         == ONE \div 1000  \* distance at which the gain has settled

KnobBlocks     == 5          \* audio blocks in a run that moves all knobs
TwinFreeBlocks == 2          \* blocks during which the second run's knobs move
IdleSingles    == 40         \* single samples of an endless silence
RestBlocks     == 240        \* audio blocks in a run with the knobs at rest

LockLead       == 33         \* silent samples before the onset
LockPeriod     == 6          \* period of the tone at the onset (one edge)
LockFreeBlocks == 1          \* blocks during which mix and scale may move
CommitFreeBlocks == 18       \* blocks during which the scale knob may move

BurstLead      == 33         \* silent samples before the burst
BurstPeriod    == 40         \* period of the burst's tone
BurstEdges     == 72         \* its number of edges
BurstSilence   == 800        \* silent samples after it
BlipSilence    == 2500       \* silent samples after a faint onset

FundLow        == (60 * FreqOne) + 1   \* lowest frequency handed to ftom
FundStep       == 4801       \* distance of two such frequencies
FundCount      == 299        \* their number
RawLow         == 3875       \* lowest raw harmony value handed to the search
RawStep        == 25         \* distance of two such values (a quarter tone)
RawCount       == 233        \* their number

----------------------------------------------------------------------------
(* ZeroCrossingPitchDetector *)

\* periods after which GetFreq() has to be within FreqTol of the tone
ConvergePeriods == 22
FreqTol == FreqOne

\* if (fabsf(x) < 1e-6f) x = 0.0f
Flush(x) == IF Abs(x) < DenormFloor THEN 0 ELSE x

\* dc_block_ = in - prev_in_ + (0.995f * dc_block_), floored
DcBlock(in) == Flush((in - prev_in_) + MulQ(dc_block_, 199, 200))

\* filtered_in_ = (dc_block_ * 0.1f) + (filtered_in_ * 0.9f), floored
LowPass(dc) == Flush(MulQ(dc, 1, 10) + MulQ(filtered_in_, 9, 10))

\* state_ == 0 && filtered_in_ > 0.002f
IsRise(st, filt) == st = 0 /\ filt > CrossThresh

\* else if (state_ == 1 && filtered_in_ < -0.002f)
IsFall(st, filt) == st = 1 /\ filt < -CrossThresh

\* (fault) the period is looked at on either edge
MeasuresBothEdges(rise, fall) == rise \/ fall

\* the period is looked at inside the rising branch only
Measures(rise, fall) == rise

\* if (samples_since_last_ > 30)
PastHoldOff(n) == n > HoldOff

\* float new_freq = sr_ / (float)samples_since_last_
NewFreq(n) == (SampleRate * FreqOne) \div n

\* (fault) the band includes its two ends
InBandInclusive(f) == f >= FreqMin /\ f <= FreqMax

\* if (new_freq > 60.0f && new_freq < 1500.0f)
InBand(f) == f > FreqMin /\ f < FreqMax

\* (fault) the old estimate is not scaled down: freq_ += new_freq * 0.3f
BlendAdd(old, new) == old + MulQ(new, 3, 10)

\* (fault) the blend takes 3% of the new measurement
BlendSlow(old, new) == MulQ(old, 97, 100) + MulQ(new, 3, 100)

\* freq_ = (freq_ * 0.7f) + (new_freq * 0.3f)
Blend(old, new) == MulQ(old, 7, 10) + MulQ(new, 3, 10)

\* (fault) the decay factor is 0.9999f
DecayFast(c) ==
    LET d == MulQ(c, 9999, 10000)
    IN  IF d < DenormFloor THEN 0 ELSE d

\* (fault) certainty is not decayed
DecayNever(c) == c

\* (fault) the floor is 0.9 rather than 1e-6
DecayFloorHigh(c) ==
    LET d == MulQ(c, 19999, 20000)
    IN  IF d < MulQ(ONE, 9, 10) THEN 0 ELSE d

\* certainty_ *= 0.99995f; if (certainty_ < 1e-6f) certainty_ = 0.0f
Decay(c) ==
    LET d == MulQ(c, 19999, 20000)
    IN  IF d < DenormFloor THEN 0 ELSE d

\* longest run of equally spaced rising crossings that is counted
RunCap == ConvergePeriods + 2

\* samples_since_last_++ on a signed int: at INT_MAX the increment
\* overflows, which is undefined; the counter is then left wrapped around to
\* INT_MIN, as the add instruction leaves it, or at some other value (0)
PlusPlus(n) == IF n = IntMax THEN {(-IntMax) - 1, 0} ELSE {n + 1}

\* void Process(float in)
Process(in) ==
    LET dc   == DcBlock(in)
        filt == LowPass(dc)
        rise == IsRise(state_, filt)
        fall == ~rise /\ IsFall(state_, filt)
        past == Measures(rise, fall) /\ PastHoldOff(samples_since_last_)
        cand == IF past THEN NewFreq(samples_since_last_) ELSE 0
        ok   == past /\ InBand(cand)
    IN  /\ dc_block_' = dc
        /\ prev_in_' = in
        /\ filtered_in_' = filt
        /\ state_' = IF rise THEN 1 ELSE IF fall THEN 0 ELSE state_
        /\ freq_' = IF ok THEN Blend(freq_, cand) ELSE freq_
        /\ samples_since_last_' \in PlusPlus(IF past THEN 0 ELSE samples_since_last_)
        /\ certainty_' = Decay(IF ok THEN ONE ELSE certainty_)
        \* observation of the call
        /\ ev' = IF ok THEN "accept"
                 ELSE IF past THEN "reject"
                 ELSE IF rise THEN "holdoff"
                 ELSE IF fall THEN "fall" ELSE "none"
        /\ new_freq' = cand
        /\ g_since' = IF rise THEN 1 ELSE Min(g_since, IntMax - 1) + 1
        /\ g_period' = IF rise /\ g_rises >= 1 THEN g_since ELSE g_period
        /\ g_rises' = IF rise THEN Min(g_rises + 1, 2) ELSE g_rises
        /\ g_run' = IF rise /\ g_rises >= 1
                    THEN (IF g_since = g_period THEN Min(g_run + 1, RunCap) ELSE 1)
                    ELSE g_run
        /\ g_regular' = IF rise /\ g_rises >= 2 /\ g_since # g_period
                        THEN FALSE ELSE g_regular
        /\ g_fell' = IF past THEN FALSE ELSE IF fall THEN TRUE ELSE g_fell
        /\ g_computed' = (g_computed \/ past)

\* k calls of Process(0.0f) in a row with the detector at rest (the input
\* and the two filters at 0, certainty at 0) and the counter at least k
\* below INT_MAX: no crossing, certainty stays 0, and each call adds one to
\* samples_since_last_
ProcessSilence(k) ==
    /\ prev_in_ = 0 /\ dc_block_ = 0 /\ filtered_in_ = 0 /\ certainty_ = 0
    /\ samples_since_last_ <= IntMax - k
    /\ samples_since_last_' = samples_since_last_ + k
    /\ UNCHANGED <<state_, freq_, certainty_, filtered_in_, dc_block_, prev_in_>>
    /\ ev' = "none"
    /\ new_freq' = 0
    /\ g_since' = Min(g_since, (IntMax - 1) - k) + k
    /\ UNCHANGED <<g_period, g_rises, g_run, g_regular, g_fell, g_computed>>

\* float GetFreq() / float GetCertainty()
GetFreq == freq_
GetCertainty == certainty_

\* void reset(), called by Init(sample_rate)
DetInitFreq(f) ==
    /\ state_ = 0
    /\ samples_since_last_ = 0
    /\ freq_ = f
    /\ certainty_ = 0
    /\ filtered_in_ = 0
    /\ dc_block_ = 0
    /\ prev_in_ = 0

DetInit == DetInitFreq(InitFreq)

ObsInit ==
    /\ ev = "none"
    /\ new_freq = 0
    /\ g_since = 0
    /\ g_period = 0
    /\ g_rises = 0
    /\ g_run = 0
    /\ g_regular = TRUE
    /\ g_fell = FALSE
    /\ g_computed = FALSE

----------------------------------------------------------------------------
(* The signal source: float input = in[0][i] *)

\* the half-wave lengths allowed after an edge to level lv
Halves(lv) ==
    IF src_tone = 0 THEN HalfLens
    ELSE IF lv > 0 THEN {src_tone \div 2} ELSE {src_tone - (src_tone \div 2)}

\* the source hands sample in to the detector
Source(in) ==
    IF src_left > 0
    THEN /\ in = prev_in_
         /\ src_left' = src_left - 1
         /\ UNCHANGED <<src_tone, src_edges, src_tail>>
    ELSE IF src_edges > 0
    THEN /\ in # 0
         /\ (prev_in_ > 0 => in = -Amp)
         /\ (prev_in_ < 0 => in = Amp)
         /\ \E h \in Halves(in) : src_left' = h - 1
         /\ src_edges' = src_edges - 1
         /\ UNCHANGED <<src_tone, src_tail>>
    ELSE /\ src_tail > 0
         /\ in = 0
         /\ src_tail' = src_tail - 1
         /\ UNCHANGED <<src_tone, src_left, src_edges>>

InputLevels == {-Amp, 0, Amp}

----------------------------------------------------------------------------
(* Harmony: ftom and the scale quantizer *)

\* 440 * 2^(j/12) Hz for j = 0..12: the semitones of the octave above A4
SemiFreq == <<440000, 466164, 493883, 523251, 554365, 587330, 622254,
              659255, 698456, 739989, 783991, 830609, 880000>>

\* the semitone of the octave above A4 that f (in 440..880 Hz) falls in
SemiBelow(f) == CHOOSE j \in 0..11 : SemiFreq[j + 1] <= f /\ f < SemiFreq[j + 2]

\* 12 * log2(f / 440) + 69 for f in 440..880 Hz: exact on the semitones and
\* interpolated between two of them, rounded to the nearest unit
FtomOctave(f) ==
    LET j == SemiBelow(f)
        w == SemiFreq[j + 2] - SemiFreq[j + 1]
    IN  (69 * MidiOne) + (j * MidiOne)
          + ((((f - SemiFreq[j + 1]) * MidiOne) + (w \div 2)) \div w)

\* 12.0f * log2f(f / 440.0f) + 69.0f, for f > 0
RECURSIVE ftom(_)
ftom(f) ==
    IF f < SemiFreq[1] THEN ftom(2 * f) - (12 * MidiOne)
    ELSE IF f >= SemiFreq[13] THEN ftom(f \div 2) + (12 * MidiOne)
    ELSE FtomOctave(f)

\* the frequency of the note C in the k-th octave of the scale tables
\* (k = 0 is C2, MIDI 36), rounded to the nearest unit
RootFreq(k) ==
    IF k >= 3 THEN SemiFreq[4] * (2 ^ (k - 3))
    ELSE (SemiFreq[4] + (2 ^ (2 - k))) \div (2 ^ (3 - k))

RootOctaves == 0..4

\* the frequency of the MIDI note m, 440 * 2^((m - 69) / 12) Hz, rounded to
\* the nearest unit
NoteFreq(m) ==
    IF m >= 69
    THEN SemiFreq[((m - 69) % 12) + 1] * (2 ^ ((m - 69) \div 12))
    ELSE LET k == ((69 - m) + 11) \div 12
         IN  (SemiFreq[((m - 69) + (12 * k)) + 1] + (2 ^ (k - 1))) \div (2 ^ k)

\* the notes whose frequency lies in the detector's band (B1 to F#6)
Notes == {m \in 24..96 : NoteFreq(m) > FreqMin /\ NoteFreq(m) < FreqMax}

\* detected frequencies handed to the harmony computation: a sweep of the
\* band 60..1500 Hz, its two ends, the roots and the notes
FundFreqs ==
    {f \in {FundLow + (FundStep * k) : k \in 0..FundCount} : f < FreqMax}
      \cup {FreqMin + 1, FreqMax - 1}
      \cup {RootFreq(k) : k \in RootOctaves}
      \cup {NoteFreq(m) : m \in Notes}

\* raw harmony values handed to the search
RawValues == {RawLow + (RawStep * k) : k \in 0..RawCount}

\* float scales[6][15]
scales == <<
    <<36, 37, 38, 39, 40, 41, 42, 43, 44, 45, 46, 47, 48, 49, 50>>,
    <<36, 38, 40, 41, 43, 45, 47, 48, 50, 52, 53, 55, 57, 59, 60>>,
    <<36, 38, 39, 41, 43, 44, 46, 48, 50, 51, 53, 55, 56, 58, 60>>,
    <<36, 38, 40, 43, 45, 48, 50, 52, 55, 57, 60, 62, 64, 67, 69>>,
    <<36, 39, 41, 43, 46, 48, 51, 53, 55, 58, 60, 63, 65, 67, 70>>,
    <<36, 39, 41, 42, 43, 46, 48, 51, 53, 54, 55, 58, 60, 63, 65>> >>

ScaleIndexes == 0..5
Degrees == 15                \* for (int n = 0; n < 15; n++)

\* (fault) the search covers four octaves
OctavesFour == 5 - 1

Octaves == 5                 \* for (int oct = 0; oct < 5; oct++)

\* (fault) the octave is not added
CandidateFlat(s, oct, n) == scales[s + 1][n + 1] * MidiOne

\* float candidate = scales[current_scale][n] + (oct * 12.0f)
Candidate(s, oct, n) == (scales[s + 1][n + 1] + (oct * 12)) * MidiOne

\* the k-th candidate of the search: octaves in the outer loop, degrees in
\* the inner one
CandidateAt(s, k) == Candidate(s, k \div Degrees, k % Degrees)

\* (fault) the interval is a fifth for the last two scales only
IntervalLate(s) == IF s > 3 THEN 7 * MidiOne ELSE 4 * MidiOne

\* float interval = (current_scale >= 3) ? 7.0f : 4.0f
Interval(s) == IF s >= 3 THEN 7 * MidiOne ELSE 4 * MidiOne

\* float raw_harm = input_midi + interval
RawHarm(f, s) == ftom(f) + Interval(s)

\* (fault) a candidate as near as the nearest so far replaces it
RECURSIVE SearchLast(_, _, _, _, _)
SearchLast(raw, s, k, near, min_diff) ==
    IF k = Octaves * Degrees THEN near
    ELSE LET candidate == CandidateAt(s, k)
             diff == Abs(raw - candidate)
         IN  IF diff <= min_diff
             THEN SearchLast(raw, s, k + 1, candidate, diff)
             ELSE SearchLast(raw, s, k + 1, near, min_diff)

\* the two loops from their k-th iteration on:
\* if (diff < min_diff) { min_diff = diff; closest = candidate; }
RECURSIVE Search(_, _, _, _, _)
Search(raw, s, k, near, min_diff) ==
    IF k = Octaves * Degrees THEN near
    ELSE LET candidate == CandidateAt(s, k)
             diff == Abs(raw - candidate)
         IN  IF diff < min_diff
             THEN Search(raw, s, k + 1, candidate, diff)
             ELSE Search(raw, s, k + 1, near, min_diff)

\* (fault) the interval is added once more inside the search
QuantizeShifted(raw, s) ==
    Search(raw + Interval(s), s, 0, scales[s + 1][1] * MidiOne, 1000 * MidiOne)

\* float closest = scales[current_scale][0]; float min_diff = 1000.0f;
\* followed by the two loops
Quantize(raw, s) ==
    Search(raw, s, 0, scales[s + 1][1] * MidiOne, 1000 * MidiOne)

\* (fault) the margin is a whole semitone
CommitSemitone(near, last) ==
    IF Abs(near - last) > MidiOne THEN near ELSE last

\* if (fabsf(closest - last_target_midi) > 0.5f) last_target_midi = closest
Commit(near, last) ==
    IF Abs(near - last) > (MidiOne \div 2) THEN near ELSE last

----------------------------------------------------------------------------
(* AudioCallback: knob smoothing, envelope and noise gate *)

\* (fault) the reading is used as it comes
ClampNone(x) == x

\* fmaxf(0.0f, fminf(1.0f, hw.adc.GetFloat(3)))
Clamp01(x) == Max(0, Min(ONE, x))

\* smooth_gate += 0.05f * (gate_knob - smooth_gate)
Smooth(s, k) == s + MulQ(k - s, 1, 20)

\* x * x for x in [0, 1], truncated toward zero
Square(x) ==
    LET a == x \div 10000
        b == x % 10000
    IN  (a * a) + (((2 * a * b) + ((b * b) \div 10000)) \div 10000)

\* float gate_thresh_on = (smooth_gate * smooth_gate) * 0.05f
GateThreshOn(sg) == MulQ(Square(sg), 1, 20)

\* float gate_thresh_off = gate_thresh_on * 0.5f
GateThreshOff(on) == MulQ(on, 1, 2)

ThreshOn  == GateThreshOn(smooth_gate)
ThreshOff == GateThreshOff(ThreshOn)

\* (fault) one threshold: the gate closes below the on-threshold
GateNextOneThreshold(open, env, on, off) ==
    IF ~open /\ env > on THEN TRUE
    ELSE IF open /\ env < on THEN FALSE
    ELSE open

\* (fault) the comparisons include the thresholds
GateNextInclusive(open, env, on, off) ==
    IF ~open /\ env >= on THEN TRUE
    ELSE IF open /\ env <= off THEN FALSE
    ELSE open

\* if (!gate_open && env_out > gate_thresh_on) gate_open = true;
\* else if (gate_open && env_out < gate_thresh_off) gate_open = false;
GateNext(open, env, on, off) ==
    IF ~open /\ env > on THEN TRUE
    ELSE IF open /\ env < off THEN FALSE
    ELSE open

\* env_out = sqrtf(fmaxf(0.0f, ms - 1e-9f)): the output of the external
\* RMS filter, any level that is not negative
EnvLevels ==
    {e \in {0, ThreshOff - 1, ThreshOff, (ThreshOff + ThreshOn) \div 2,
            ThreshOn, ThreshOn + 1, EnvHalf, ONE} : e >= 0}

\* the envelope of the sample in: any level, or one that follows the input
EnvOut(in) ==
    IF env_level > 0 THEN {IF in # 0 THEN env_level ELSE 0} ELSE EnvLevels

\* x * y for two floats of the unit range, truncated toward zero
Mul(x, y) ==
    LET a  == Abs(x)
        b  == Abs(y)
        a1 == a \div 10000
        a0 == a % 10000
        b1 == b \div 10000
        b0 == b % 10000
        q  == (a1 * b1)
                + ((((a1 * b0) + (a0 * b1)) + ((a0 * b0) \div 10000)) \div 10000)
    IN  IF (x < 0) # (y < 0) THEN -q ELSE q

\* current_scale = (int) (scale_knob * 5.99f)
ScaleIndex(k) == MulQ(k, 599, 100) \div ONE

\* pitch_smoother.SetHtime(0.001f + (smooth_glide * 0.5f)), in seconds
Htime(sg) == (ONE \div 1000) + MulQ(sg, 1, 2)

\* warmth_filter.SetFreq(100.0f + (smooth_filter * 7000.0f)), in Hz
Cutoff(sf) == (100 * FreqOne) + MulQ(sf, 7 * FreqOne, 100 * FreqOne)

\* float vib_depth = smooth_vib * 1.0f
VibDepth(sv) == sv

\* the knobs in the order of their ADC channels 0..5 (glide, filter, mix,
\* gate, vibrato, scale), the five smoothers, and the parameters set from
\* them at the head of a block
KnobNumbers == 1..6
KnobState ==
    [ knob   |-> <<glide_knob, filter_knob, mix_knob, gate_knob, vib_knob,
                   scale_knob>>,
      smooth |-> <<smooth_glide, smooth_filter, smooth_mix, smooth_gate,
                   smooth_vib>>,
      scale  |-> current_scale,
      htime  |-> htime,
      cutoff |-> cutoff,
      vib    |-> vib_depth ]

\* the head of AudioCallback applied to the knob state st and the six
\* readings adc: clamp, smooth, set the parameters
KnobUpdate(st, adc) ==
    LET k == [j \in KnobNumbers |-> Clamp01(adc[j])]
        s == [j \in 1..5 |-> Smooth(st.smooth[j], k[j])]
    IN  [ knob   |-> k,
          smooth |-> s,
          scale  |-> ScaleIndex(k[6]),
          htime  |-> Htime(s[1]),
          cutoff |-> Cutoff(s[2]),
          vib    |-> VibDepth(s[5]) ]

\* the knobs that are free to move in this block
FreeKnobs ==
    {j \in KnobNumbers :
        \/ j \in {1, 2, 5} /\ blocks < aux_free
        \/ j \in {3, 6} /\ blocks < par_free
        \/ j = 6 /\ blocks < scale_free
        \/ j = 4 /\ blocks < gate_free}

\* the readings knob j may give
ReadsOf(j) == IF j = 6 THEN ScaleReads ELSE KnobReads

\* hw.adc.GetFloat(0..5) in one block: the knobs read what they read in
\* the block before, or one of the knobs that are free gives any reading
AdcReads(st, free) ==
    {st.knob} \cup
    {[st.knob EXCEPT ![p[1]] = p[2]] :
        p \in UNION {{<<j, raw>> : raw \in ReadsOf(j)} : j \in free}}

\* (fault) the open gate alone counts as a lock
LockConditionGateOnly(open, cert) == open

\* bool confident = p_det.GetCertainty() > 0.85f;  confident && gate_open
LockCondition(open, cert) == open /\ cert > Confident

\* float input_midi = ftom(p_det.GetFreq()); float raw_harm = input_midi +
\* interval; and the two loops: the values raw_harm and closest take on
\* this sample.  They are read only when the detector is confident, and
\* stand at 0 when it is not
HarmonyOf(f, cert) ==
    IF cert > Confident
    THEN {<<raw, Quantize(raw, current_scale)>> :
             raw \in {RawHarm(f, current_scale)}}
    ELSE {<<0, 0>>}

\* (fault) is_locked follows the last sample: a sample that is not locked
\* clears it
HarmonyLastSample(lock, raw, near) ==
    /\ is_locked' = lock
    /\ IF lock
       THEN /\ raw_harm' = raw
            /\ closest' = near
            /\ last_target_midi' = Commit(near, last_target_midi)
       ELSE UNCHANGED <<raw_harm, closest, last_target_midi>>

\* (fault) the harmony is computed and committed whatever the lock is
HarmonyAlways(lock, raw, near) ==
    /\ raw_harm' = raw
    /\ closest' = near
    /\ last_target_midi' = Commit(near, last_target_midi)
    /\ is_locked' = (is_locked \/ lock)

\* if (confident && gate_open) { is_locked = true; ... }, with raw the
\* value of raw_harm and near the note the search finds for it: the locals
\* raw_harm and closest exist in that branch only and are kept as they were
\* on the other samples
Harmony(lock, raw, near) ==
    IF lock
    THEN /\ raw_harm' = raw
         /\ closest' = near
         /\ last_target_midi' = Commit(near, last_target_midi)
         /\ is_locked' = TRUE
    ELSE UNCHANGED <<raw_harm, closest, last_target_midi, is_locked>>

\* (fault) the target follows the envelope whatever the lock is
TargetVcaAlways(lock, env) == Clamp01(4 * env)

\* (fault) the target is not clamped
TargetVcaUnclamped(lock, env) == IF lock THEN 4 * env ELSE 0

\* float dyn_vol = env_out * 4.0f;
\* float target_vca = (confident && gate_open) ? dyn_vol : 0.0f;
\* target_vca = fmaxf(0.0f, fminf(1.0f, target_vca))
TargetVca(lock, env) == Clamp01(IF lock THEN 4 * env ELSE 0)

\* (fault) the release is as fast as the attack
VcaSlewEqual(cur, target) ==
    IF target > cur THEN cur + ((target - cur) \div 100)
    ELSE cur - (((cur - target) + 99) \div 100)

\* (fault) the gain is raised toward the target and never lowered
VcaSlewNoRelease(cur, target) ==
    IF target > cur THEN cur + ((target - cur) \div 100) ELSE cur

\* float slew_rate = (target_vca > current_vca) ? 0.01f : 0.0001f;
\* current_vca += slew_rate * (target_vca - current_vca): the exact sum,
\* truncated toward zero at one unit
VcaSlew(cur, target) ==
    IF target > cur THEN cur + ((target - cur) \div 100)
    ELSE cur - (((cur - target) + 9999) \div 10000)

\* (fault) the gain is never snapped to the target
VcaSnapNever(v, target) == v

\* if (fabsf(current_vca - target_vca) < 1e-6f) current_vca = target_vca
VcaSnap(v, target) == IF Abs(v - target) < DenormFloor THEN target ELSE v

\* the gain is within VcaTol of the target
VcaSettled(v, target) == Abs(v - target) <= VcaTol

\* the samples the gain has needed so far to settle at the present target,
\* the gain the present target found, and the samples a rise of the target
\* from 0 to 1 has needed
VcaObserve(target) ==
    LET changed == target # vca_goal
        from == IF changed THEN current_vca ELSE vca_from
        n == IF changed THEN 1
             ELSE IF VcaSettled(current_vca, target) THEN vca_n
             ELSE vca_n + 1
    IN  /\ vca_goal' = target
        /\ vca_from' = from
        /\ vca_n' = n
        /\ att_n' = IF target = ONE /\ from = 0
                       /\ VcaSettled(current_vca', target)
                    THEN n ELSE att_n

\* the Soft VCA lines of the loop
Vca(lock, env) ==
    /\ target_vca' = TargetVca(lock, env)
    /\ current_vca' = VcaSnap(VcaSlew(current_vca, target_vca'), target_vca')
    /\ VcaObserve(target_vca')

\* (fault) the dry signal is muted while the gate is closed
GatedInputMuted(input) == IF gate_open' THEN input ELSE 0

\* float gated_input = input
GatedInput(input) == input

\* harm_sig = warmth_filter.Low() - 1e-9f: the output of the external
\* oscillator and filter
HarmLevels == {-HarmAmp, HarmAmp}

\* harm_sig *= current_vca;
\* out[0][i] = (gated_input * (1.0f - smooth_mix)) + (harm_sig * smooth_mix);
\* out[1][i] = out[0][i]
Output(input, low) ==
    /\ harm_sig' = Mul(low, current_vca')
    /\ out0' = Mul(GatedInput(input), ONE - smooth_mix) + Mul(harm_sig', smooth_mix)
    /\ out1' = out0'

\* the globals and statics before the first callback
CbInitScale(s) ==
    /\ pc = "idle"
    /\ i = 0
    /\ blocks = 0
    /\ smooth_gate = ONE \div 10
    /\ smooth_mix = ONE \div 2
    /\ current_scale = s
    /\ last_target_midi = 60 * MidiOne
    /\ env_out = 0
    /\ current_vca = 0
    /\ gate_open = FALSE
    /\ gate_was = FALSE
    /\ is_locked = FALSE
    /\ led = FALSE
    /\ raw_harm = 0 /\ closest = 0 /\ target_vca = 0
    /\ harm_sig = 0 /\ out0 = 0 /\ out1 = 0
    /\ vca_goal = 0 /\ vca_from = 0 /\ vca_n = 0 /\ att_n = 0
    /\ smooth_filter = ONE \div 2
    /\ smooth_glide = ONE \div 10
    /\ smooth_vib = ONE \div 5
    /\ htime = ONE \div 100
    /\ cutoff = 200 * FreqOne
    /\ vib_depth = 0

CbInit == CbInitScale(1)

\* where the knobs stand at power-up: gate, mix and scale as given, glide,
\* filter and vibrato where their smoothers start
Knobs(gate, mix, scale) ==
    /\ gate_knob = gate
    /\ mix_knob = mix
    /\ scale_knob = scale
    /\ glide_knob = ONE \div 10
    /\ filter_knob = ONE \div 2
    /\ vib_knob = ONE \div 5

\* the second run starts as this one does; no sample has been met
HistInit ==
    /\ twin = KnobState
    /\ ever_locked = FALSE
    /\ blk_locked = FALSE
    /\ adc_in = KnobState.knob

\* the quantizer is not driven apart from the callback
QOff == q_pc = "off" /\ q_fund = FALSE /\ requant = 0

\* samples the source still has to deliver
SourceLeft == src_left + src_edges + src_tail

\* the head of AudioCallback: read and clamp the knobs, smooth them, set
\* the scale index, clear is_locked
BlockBegin ==
    /\ pc = "idle"
    /\ SourceLeft > 0
    /\ \E adc \in AdcReads(KnobState, FreeKnobs) :
          /\ adc_in' = adc
          /\ \E new \in {KnobUpdate(KnobState, adc)} :
                /\ glide_knob' = new.knob[1]
                /\ filter_knob' = new.knob[2]
                /\ mix_knob' = new.knob[3]
                /\ gate_knob' = new.knob[4]
                /\ vib_knob' = new.knob[5]
                /\ scale_knob' = new.knob[6]
                /\ smooth_glide' = new.smooth[1]
                /\ smooth_filter' = new.smooth[2]
                /\ smooth_mix' = new.smooth[3]
                /\ smooth_gate' = new.smooth[4]
                /\ smooth_vib' = new.smooth[5]
                /\ current_scale' = new.scale
                /\ htime' = new.htime
                /\ cutoff' = new.cutoff
                /\ vib_depth' = new.vib
          /\ \E adc2 \in (IF blocks < twin_free
                           THEN AdcReads(twin, KnobNumbers) ELSE {adc}) :
                twin' = KnobUpdate(twin, adc2)
    /\ is_locked' = FALSE
    /\ blk_locked' = FALSE
    /\ pc' = "loop"
    /\ i' = 0
    /\ gate_was' = gate_open
    /\ UNCHANGED <<blocks, env_out, gate_open, last_target_midi, current_vca, led,
                   ever_locked>>
    /\ UNCHANGED <<detVars, obsVars, srcVars, loopVars, vcaVars, envVars, qVars>>

\* one iteration of for (size_t i = 0; i < size; i++)
SampleStep ==
    /\ pc = "loop"
    /\ i < BlockSize
    /\ \E in \in InputLevels :
          /\ Source(in)
          /\ Process(in)
          /\ \E h \in HarmonyOf(GetFreq', GetCertainty') :
                \E env \in EnvOut(in) :
                   /\ env_out' = env
                   /\ gate_open' = GateNext(gate_open, env, ThreshOn, ThreshOff)
                   /\ Harmony(LockCondition(gate_open', GetCertainty'), h[1], h[2])
                   /\ Vca(LockCondition(gate_open', GetCertainty'), env)
          /\ \E low \in HarmLevels : Output(in, low)
    /\ gate_was' = gate_open
    /\ i' = i + 1
    \* observation: the gate was open and certainty above 0.85 on a sample
    \* of this block, of this run
    /\ blk_locked' = (blk_locked \/ (gate_open' /\ certainty_' > Confident))
    /\ ever_locked' = (ever_locked \/ (gate_open' /\ certainty_' > Confident))
    /\ UNCHANGED <<pc, blocks, gate_knob, smooth_gate, mix_knob, scale_knob,
                   smooth_mix, current_scale, led>>
    /\ UNCHANGED <<envVars, qVars, knobVars, twin, adc_in>>

\* the end of AudioCallback: hw.SetLed(is_locked)
BlockEnd ==
    /\ pc = "loop"
    /\ i = BlockSize
    /\ pc' = "idle"
    /\ blocks' = blocks + 1
    /\ led' = is_locked
    /\ UNCHANGED <<i, gate_knob, smooth_gate, env_out, gate_open, gate_was,
                   mix_knob, scale_knob, smooth_mix, current_scale,
                   last_target_midi, current_vca, is_locked>>
    /\ UNCHANGED <<detVars, obsVars, srcVars, loopVars, vcaVars, envVars, qVars,
                   knobVars, histVars>>

----------------------------------------------------------------------------
(* Specifications *)

\* the detector alone, called sample by sample
DetStep ==
    /\ \E in \in InputLevels : Source(in) /\ Process(in)
    /\ UNCHANGED <<cbVars, loopVars, vcaVars, envVars, qVars, knobVars,
                   histVars>>

\* the lengths of the stretches of an endless silence that are run at once
RunLens == {2 ^ 29, 2 ^ 30, (2 ^ 30) - 1}

\* the detector called on a stretch of an endless silence
SilentRun ==
    /\ src_left = 0 /\ src_edges = 0
    /\ \E k \in RunLens : ProcessSilence(k)
    /\ UNCHANGED <<srcVars, cbVars, loopVars, vcaVars, envVars, qVars, knobVars,
                   histVars>>

\* the callback is not running: the knobs rest and nothing moves them
CbIdle ==
    /\ CbInit /\ QOff
    /\ Knobs(0, ONE \div 2, ONE \div 5)
    /\ gate_free = 0 /\ par_free = 0 /\ env_level = 0
    /\ aux_free = 0 /\ twin_free = 0 /\ scale_free = 0
    /\ HistInit

\* a square wave whose half-waves are chosen freely
InitDet ==
    /\ DetInit /\ ObsInit /\ CbIdle
    /\ src_tone = 0
    /\ src_left \in LeadIns
    /\ src_edges = MaxEdges
    /\ src_tail = MaxTail

SpecDet == InitDet /\ [][DetStep]_vars

\* a square wave of one fixed period
InitTone ==
    /\ DetInit /\ ObsInit /\ CbIdle
    /\ src_tone \in TonePeriods
    /\ src_left \in ToneLeadIns
    /\ src_edges = 2 * MaxPeriods
    /\ src_tail = 0

SpecTone == InitTone /\ [][DetStep]_vars

\* a short tone followed by a long silence
InitDecay ==
    /\ DetInit /\ ObsInit /\ CbIdle
    /\ src_tone = DecayPeriod
    /\ src_left = 0
    /\ src_edges = DecayEdges
    /\ src_tail = MaxSilence

SpecDecay == InitDecay /\ [][DetStep]_vars

\* the detector on an endless silence, sample by sample or in stretches
InitIdle ==
    /\ DetInit /\ ObsInit /\ CbIdle
    /\ src_tone = 0
    /\ src_left = 0
    /\ src_edges = 0
    /\ src_tail = IdleSingles

NextIdle == DetStep \/ SilentRun

SpecIdle == InitIdle /\ [][NextIdle]_vars

\* the audio callback with a silent input, any envelope and a gate knob
\* that moves during the first blocks
InitGate ==
    /\ DetInit /\ ObsInit /\ CbInit /\ QOff
    /\ Knobs(0, ONE \div 2, ONE \div 5)
    /\ gate_free = KnobFreeBlocks /\ par_free = 0 /\ env_level = 0
    /\ aux_free = 0 /\ twin_free = 0 /\ scale_free = 0
    /\ HistInit
    /\ src_tone = 0
    /\ src_left = 0
    /\ src_edges = 0
    /\ src_tail = MaxBlocks * BlockSize

NextGate == BlockBegin \/ SampleStep \/ BlockEnd

SpecGate == InitGate /\ [][NextGate]_vars

\* the audio callback with the onset of a tone after a silence, any
\* envelope, and mix and scale knobs that move during the first block
InitLock ==
    /\ DetInit /\ ObsInit /\ CbInit /\ QOff
    /\ Knobs(0, ONE \div 2, ONE \div 5)
    /\ gate_free = 0 /\ par_free = LockFreeBlocks /\ env_level = 0
    /\ aux_free = 0 /\ twin_free = 0 /\ scale_free = 0
    /\ HistInit
    /\ src_tone = LockPeriod
    /\ src_left = LockLead
    /\ src_edges = 1
    /\ src_tail = 0

SpecLock == InitLock /\ [][NextGate]_vars

\* the audio callback with the onset of a tone after a silence, any
\* envelope, and a scale knob that moves in any block, the blocks of the
\* lock included
InitCommit ==
    /\ DetInit /\ ObsInit /\ CbInit /\ QOff
    /\ Knobs(0, ONE \div 2, ONE \div 5)
    /\ gate_free = 0 /\ par_free = 0 /\ env_level = 0
    /\ aux_free = 0 /\ twin_free = 0 /\ scale_free = CommitFreeBlocks
    /\ HistInit
    /\ src_tone = LockPeriod
    /\ src_left = LockLead
    /\ src_edges = 1
    /\ src_tail = 0

SpecCommit == InitCommit /\ [][NextGate]_vars

\* the audio callback with a burst of tone and then silence, a loud
\* envelope that follows the input, and knobs at rest
InitBurst ==
    /\ DetInit /\ ObsInit /\ CbInit /\ QOff
    /\ Knobs(ONE \div 2, ONE \div 2, ONE \div 5)
    /\ gate_free = 0 /\ par_free = 0 /\ env_level = EnvBurst
    /\ aux_free = 0 /\ twin_free = 0 /\ scale_free = 0
    /\ HistInit
    /\ src_tone = BurstPeriod
    /\ src_left = BurstLead
    /\ src_edges = BurstEdges
    /\ src_tail = BurstSilence

SpecBurst == InitBurst /\ [][NextGate]_vars

\* the audio callback with the onset of a tone and then silence, a faint
\* envelope that follows the input, and knobs at rest
InitBlip ==
    /\ DetInit /\ ObsInit /\ CbInit /\ QOff
    /\ Knobs(0, ONE \div 2, ONE \div 5)
    /\ gate_free = 0 /\ par_free = 0 /\ env_level = EnvBlip
    /\ aux_free = 0 /\ twin_free = 0 /\ scale_free = 0
    /\ HistInit
    /\ src_tone = LockPeriod
    /\ src_left = LockLead
    /\ src_edges = 1
    /\ src_tail = BlipSilence

SpecBlip == InitBlip /\ [][NextGate]_vars

\* SampleStep as the loop counter shows it: the loop goes on to its next
\* iteration while the block has samples left
LoopStep ==
    /\ pc = "loop"
    /\ i < BlockSize
    /\ SourceLeft > 0
    /\ i' = i + 1
    /\ pc' = pc

\* the same, with the audio hardware calling the callback for every block
\* of the input, the sample loop running to its end and the callback
\* returning
SpecFade ==
    /\ InitBlip /\ [][NextGate]_vars
    /\ WF_vars(BlockBegin)
    /\ WF_<<pc, i>>(LoopStep)
    /\ WF_vars(BlockEnd)

\* the audio callback with a silent input and six knobs of which one may
\* move in each of the first blocks
InitKnobs ==
    /\ DetInit /\ ObsInit /\ CbInit /\ QOff
    /\ Knobs(ONE \div 2, ONE \div 2, ONE \div 5)
    /\ gate_free = KnobFreeBlocks /\ par_free = KnobFreeBlocks
    /\ aux_free = KnobFreeBlocks /\ twin_free = 0 /\ scale_free = 0
    /\ env_level = EnvBurst
    /\ HistInit
    /\ src_tone = 0
    /\ src_left = 0
    /\ src_edges = 0
    /\ src_tail = KnobBlocks * BlockSize

SpecKnobs == InitKnobs /\ [][NextGate]_vars

\* the audio callback with a silent input and knobs at rest, the gate knob
\* at 0
InitRest ==
    /\ DetInit /\ ObsInit /\ CbInit /\ QOff
    /\ Knobs(0, ONE \div 2, ONE \div 5)
    /\ gate_free = 0 /\ par_free = 0 /\ aux_free = 0 /\ twin_free = 0 /\ scale_free = 0
    /\ env_level = EnvBurst
    /\ HistInit
    /\ src_tone = 0
    /\ src_left = 0
    /\ src_edges = 0
    /\ src_tail = RestBlocks * BlockSize

SpecRest == InitRest /\ [][NextGate]_vars

\* two runs of the audio callback on a silent input: this one with its
\* knobs at rest, the second one with knobs of which one may move in each
\* of the first blocks
InitTwin ==
    /\ DetInit /\ ObsInit /\ CbInit /\ QOff
    /\ Knobs(0, ONE \div 2, ONE \div 5)
    /\ gate_free = 0 /\ par_free = 0 /\ aux_free = 0
    /\ twin_free = TwinFreeBlocks /\ scale_free = 0
    /\ env_level = EnvBurst
    /\ HistInit
    /\ src_tone = 0
    /\ src_left = 0
    /\ src_edges = 0
    /\ src_tail = KnobBlocks * BlockSize

SpecTwin == InitTwin /\ [][NextGate]_vars

\* the harmony computation alone, applied to one detected frequency or to
\* one raw harmony value, for each scale
QRawHarm ==
    /\ q_pc = "fund"
    /\ IF q_fund THEN raw_harm' = RawHarm(GetFreq, current_scale)
                 ELSE raw_harm' \in RawValues
    /\ q_pc' = "raw"
    /\ UNCHANGED <<closest, requant, q_fund>>

QQuantize ==
    /\ q_pc = "raw"
    /\ closest' = Quantize(raw_harm, current_scale)
    /\ q_pc' = "near"
    /\ UNCHANGED <<raw_harm, requant, q_fund>>

QAgain ==
    /\ q_pc = "near"
    /\ requant' = Quantize(closest, current_scale)
    /\ q_pc' = "again"
    /\ UNCHANGED <<raw_harm, closest, q_fund>>

NextQuant ==
    /\ QRawHarm \/ QQuantize \/ QAgain
    /\ UNCHANGED <<detVars, obsVars, srcVars, cbVars, vcaVars, envVars,
                   target_vca, harm_sig, out0, out1, knobVars, histVars>>

InitQuant ==
    /\ \E s \in ScaleIndexes : CbInitScale(s)
    /\ \/ q_fund = TRUE /\ \E f \in FundFreqs : DetInitFreq(f)
       \/ q_fund = FALSE /\ DetInit
    /\ q_pc = "fund"
    /\ requant = 0
    /\ ObsInit
    /\ Knobs(0, ONE \div 2, ONE \div 5)
    /\ gate_free = 0 /\ par_free = 0 /\ env_level = 0
    /\ aux_free = 0 /\ twin_free = 0 /\ scale_free = 0
    /\ HistInit
    /\ src_tone = 0 /\ src_left = 0 /\ src_edges = 0 /\ src_tail = 0

SpecQuant == InitQuant /\ [][NextQuant]_vars

----------------------------------------------------------------------------
(* Properties *)

\* a step that ran Process()
Processed == samples_since_last_' # samples_since_last_

\* a step that ran one iteration of the sample loop
Sampled == pc = "loop" /\ i' = i + 1

\* C1: the gate goes from closed to open only on a sample whose envelope
\* level is strictly above the on-threshold, and from open to closed only on
\* a sample whose level is strictly below the off-threshold; every other
\* step, the steps between two blocks included, leaves the gate as it is.
C1_GateTransitions ==
    [][ /\ (~gate_open /\ gate_open') => (Sampled /\ env_out' > ThreshOn)
        /\ (gate_open /\ ~gate_open') => (Sampled /\ env_out' < ThreshOff)
      ]_vars

\* C1 witness: a sample has just closed the gate, which had opened before
C1_Witness ==
    pc = "loop" /\ i > 0 /\ gate_was /\ ~gate_open /\ env_out < ThreshOff

\* C2: with the thresholds held, a sample whose level lies between the
\* off-threshold and the on-threshold (both included) never toggles the gate,
\* whether it is open or closed.
C2_NoChatter ==
    [][ ( /\ Sampled
          /\ smooth_gate' = smooth_gate
          /\ env_out' >= ThreshOff
          /\ env_out' <= ThreshOn ) => gate_open' = gate_open
      ]_vars

\* C2 witness: an open gate has just seen a level strictly inside the band
C2_Witness ==
    /\ pc = "loop" /\ i > 0
    /\ gate_was /\ gate_open
    /\ env_out > ThreshOff /\ env_out < ThreshOn

\* C3: in every reachable state the on-threshold is strictly greater than
\* the off-threshold.
C3_HysteresisBand == ThreshOn > ThreshOff

\* C4: a period is computed, the frequency changed and certainty raised only
\* on a sample that takes the detector from WaitingForRise (0) to
\* WaitingForFall (1) with the filtered signal above +0.002; a falling
\* crossing only switches the state back; two period computations are
\* separated by a falling crossing.
C4_FullPeriod ==
    [][ Processed =>
        /\ (ev' \in {"accept", "reject"} \/ freq_' # freq_
                \/ certainty_' > certainty_)
             => (state_ = 0 /\ state_' = 1 /\ filtered_in_' > CrossThresh)
        /\ (state_ = 1 /\ state_' = 0)
             => /\ filtered_in_' < -CrossThresh
                /\ freq_' = freq_
                /\ certainty_' <= certainty_
                /\ samples_since_last_' = samples_since_last_ + 1
        /\ (ev' \in {"accept", "reject"} /\ g_computed) => g_fell
      ]_vars

\* C4 witness: a period has been accepted on a second rising crossing
C4_Witness == ev = "accept" /\ g_rises = 2 /\ state_ = 1 /\ g_computed

\* C5: when the filtered signal makes one rising crossing every P samples
\* (P past the hold-off, sampleRate/P in the band), every candidate accepted
\* after the first rising crossing is sampleRate/P.
C5_NoHalfDoublePeriod ==
    ( /\ ev = "accept"
      /\ g_rises >= 2
      /\ g_regular
      /\ g_period = src_tone
      /\ src_tone > HoldOff
      /\ InBand(NewFreq(src_tone)) ) => new_freq = NewFreq(src_tone)

\* the bound GetFreq() has reached after ConvergePeriods equal periods
Converged(f) == Abs(GetFreq - f) <= FreqTol

C7_HoldOff == (ev = "accept" /\ g_rises >= 2) => g_period > HoldOff

\* C8: a rising crossing past the hold-off whose candidate is not strictly
\* between 60 and 1500 Hz leaves the frequency unchanged and certainty to
\* its per-sample decay, and the detector in one of its two states.
C8_OutOfBandDiscard ==
    [][ ( /\ Processed
          /\ state_ = 0
          /\ filtered_in_' > CrossThresh
          /\ samples_since_last_ > HoldOff
          /\ ~( (SampleRate * FreqOne) \div samples_since_last_ > FreqMin
                /\ (SampleRate * FreqOne) \div samples_since_last_ < FreqMax ) )
        => /\ freq_' = freq_
           /\ certainty_' <= certainty_
           /\ certainty_' \in {0, MulQ(certainty_, 19999, 20000)}
           /\ state_' = 1
           /\ ev' = "reject"
      ]_vars

\* C8 witness: a candidate of exactly 60 Hz has been discarded
C8_Witness == ev = "reject" /\ new_freq = FreqMin /\ freq_ = InitFreq

C10_CertaintyDecay ==
    [][ Processed =>
        /\ (ev' # "accept") =>
             /\ certainty_' <= certainty_
             /\ (certainty_ > 0 => certainty_' < certainty_)
             /\ certainty_' \in {0, MulQ(certainty_, 19999, 20000)}
             /\ (MulQ(certainty_, 19999, 20000) < DenormFloor
                   <=> certainty_' = 0)
             /\ (certainty_ = 0 => certainty_' = 0)
        /\ (certainty_' > certainty_ => ev' = "accept")
      ]_vars

\* C10 witness: in the silence after an accepted crossing certainty has
\* decayed to exactly 0
C10_Witness ==
    /\ certainty_ = 0
    /\ freq_ # InitFreq
    /\ ev = "none"
    /\ src_edges = 0 /\ src_tail < MaxSilence

\* the quantizer has been applied to raw_harm
Quantized == q_pc \in {"near", "again"}

\* the candidate of octave o2 and degree n2 is visited before that of
\* octave o and degree n
Before(o2, n2, o, n) == o2 < o \/ (o2 = o /\ n2 < n)

\* C12: for every scale index 0..5 and every raw harmony value the search
\* returns a candidate scales[s][n] + 12 * oct (n in 0..14, oct in 0..4)
\* whose distance to the raw value is minimal over all 75 candidates, and
\* among candidates at that distance the one visited first, octaves
\* ascending and, within an octave, degrees ascending.
C12_NearestNote ==
    Quantized =>
        \E o \in 0..4, n \in 0..14 :
            /\ closest = Candidate(current_scale, o, n)
            /\ \A o2 \in 0..4, n2 \in 0..14 :
                  LET d  == Abs(raw_harm - closest)
                      d2 == Abs(raw_harm - Candidate(current_scale, o2, n2))
                  IN  /\ d <= d2
                      /\ Before(o2, n2, o, n) => d < d2

\* C12 witness: the search has been applied to a raw value that has two
\* different candidates at the minimal distance
C12_Witness ==
    /\ q_pc = "near"
    /\ \E o \in 0..4, n \in 0..14 :
          /\ Candidate(current_scale, o, n) # closest
          /\ Abs(raw_harm - Candidate(current_scale, o, n))
               = Abs(raw_harm - closest)

\* C13: the quantizer applied to its own output, for the same scale,
\* returns that output.
C13_Idempotent == (q_pc = "again") => requant = closest

\* C13 witness: the quantizer has been applied twice, the first time to a
\* value that is not a note of the scale
C13_Witness == q_pc = "again" /\ closest # raw_harm /\ requant = closest

\* semitones from the root to the harmony the scale asks for: the major
\* third for chromatic and major, the minor third for minor, the fifth for
\* the two pentatonic scales and blues
RootStep == <<4, 4, 3, 7, 7, 7>>

\* C14: for each of the six scales and a detected frequency exactly on the
\* root note C, in any octave of the detector's range, the interval (4
\* semitones for scale index below 3, 7 from 3 on) and the search give the
\* third of the scale above that root for the indexes 0..2 (root + 4 for
\* chromatic and major) and the fifth, root + 7, for the indexes 3..5.
C14_RootHarmony ==
    \A k \in RootOctaves :
        (Quantized /\ q_fund /\ GetFreq = RootFreq(k)) =>
            closest = ((36 + (12 * k)) + RootStep[current_scale + 1]) * MidiOne

\* C14 witness: the harmony of the root C4 has been computed in the minor
\* scale
C14_Witness ==
    /\ q_pc = "near" /\ q_fund
    /\ GetFreq = RootFreq(2)
    /\ current_scale = 2
    /\ raw_harm = 64 * MidiOne

\* the largest distance the scale leaves between a raw value and its note
NearTol(s) ==
    IF s = 0 THEN MidiOne \div 2
    ELSE IF s \in {1, 2} THEN MidiOne
    ELSE MidiOne + (MidiOne \div 2)

\* C15: for every scale and every raw harmony value that comes from a
\* detected frequency strictly between 60 and 1500 Hz and the interval of
\* the scale, the note found is within 1.5 semitones of the raw value (0.5
\* for chromatic, 1 for major and minor), and it is neither the lowest nor
\* the highest candidate of the scale: the search does not saturate.
C15_RangeCovered ==
    (Quantized /\ q_fund /\ GetFreq > FreqMin /\ GetFreq < FreqMax) =>
        /\ Abs(closest - raw_harm) <= NearTol(current_scale)
        /\ closest > Candidate(current_scale, 0, 0)
        /\ closest < Candidate(current_scale, 4, 14)

\* C15 witness: the harmony of the highest frequency of the band has been
\* computed in the chromatic scale
C15_Witness ==
    /\ q_pc = "near" /\ q_fund
    /\ GetFreq = FreqMax - 1
    /\ current_scale = 0
    /\ closest = 94 * MidiOne

\* the lock condition after a step: the gate is open and the detector is
\* confident
LockedNext == gate_open' /\ GetCertainty' > Confident

\* C16: last_target_midi changes on a sample if and only if, on that
\* sample, the gate is open, certainty is above 0.85 and the note found for
\* the detected frequency (closest, for the raw harmony of that frequency)
\* differs from the committed target by more than half a semitone; it then
\* becomes exactly that note.  On every other sample, and between the
\* samples, it stays as it is.
C16_TargetCommit ==
    [][ /\ Sampled =>
             /\ LockedNext =>
                   raw_harm' = ftom(GetFreq') + Interval(current_scale)
             /\ (last_target_midi' # last_target_midi)
                   <=> (LockedNext
                          /\ Abs(closest' - last_target_midi) > MidiOne \div 2)
             /\ (last_target_midi' # last_target_midi)
                   => last_target_midi' = closest'
        /\ ~Sampled => last_target_midi' = last_target_midi
      ]_vars

\* C16 witness: a locked sample has committed a note that is not the
\* initial target
C16_Witness ==
    /\ gate_open /\ GetCertainty > Confident
    /\ last_target_midi = closest
    /\ last_target_midi # 60 * MidiOne

\* C18: the VCA gain is within [0, 1] in every reachable state; on every
\* sample its target is the envelope times 4 clamped to [0, 1] when the gate
\* is open and certainty is above 0.85, and 0 otherwise; and the gain moves
\* toward the target without passing it.
C18_VcaRange ==
    [][ /\ current_vca >= 0 /\ current_vca <= ONE
        /\ current_vca' >= 0 /\ current_vca' <= ONE
        /\ Sampled =>
             /\ target_vca' = IF LockedNext
                              THEN Max(0, Min(ONE, 4 * env_out'))
                              ELSE 0
             /\ (current_vca <= target_vca') =>
                   (current_vca <= current_vca' /\ current_vca' <= target_vca')
             /\ (current_vca >= target_vca') =>
                   (target_vca' <= current_vca' /\ current_vca' <= current_vca)
      ]_vars

\* C18 witness: the envelope times 4 is above 1, the target is clamped to 1
\* and the gain is on its way to it
C18_Witness ==
    /\ gate_open /\ GetCertainty > Confident
    /\ env_out = ONE
    /\ target_vca = ONE
    /\ current_vca > 0 /\ current_vca < ONE

\* C20: on every sample both output channels carry
\* input * (1 - mix) + harmony * mix, where mix is the smoothed mix knob and
\* lies within [0, 1]; the dry term is the input itself, whatever the gate,
\* certainty and the VCA gain are.
C20_OutputMix ==
    [][ /\ smooth_mix' >= 0 /\ smooth_mix' <= ONE
        /\ Sampled =>
             /\ out1' = out0'
             /\ out0' = Mul(prev_in_', ONE - smooth_mix')
                          + Mul(harm_sig', smooth_mix')
      ]_vars

\* C20 witness: a sample with a closed gate, a harmony that still sounds
\* and a mix knob that has moved carries both terms on both channels
C20_Witness ==
    /\ ~gate_open
    /\ prev_in_ # 0
    /\ harm_sig # 0
    /\ smooth_mix < ONE \div 2
    /\ out0 = Mul(prev_in_, ONE - smooth_mix) + Mul(harm_sig, smooth_mix)
    /\ out1 = out0

\* the input is silent and the detector's two filters have come to rest
SilentAtRest ==
    /\ src_edges = 0 /\ src_left = 0
    /\ prev_in_ = 0 /\ dc_block_ = 0 /\ filtered_in_ = 0

\* C11: when the input is all zero from some sample on, certainty
\* eventually is exactly 0 and stays 0, and so the lock condition (gate open
\* and certainty above 0.85) eventually is false and stays false.  As a
\* property of finite runs: once the input is silent and the filters are at
\* rest, every sample strictly lowers a positive certainty and leaves a
\* certainty of 0 at 0, and at the end of MaxSilence silent samples
\* certainty is exactly 0 and the lock condition is false.
C11_SilenceSettles ==
    [][ Processed =>
        /\ (SilentAtRest /\ GetCertainty > 0) => GetCertainty' < GetCertainty
        /\ (SilentAtRest /\ GetCertainty = 0) => GetCertainty' = 0
        /\ (SourceLeft' = 0) =>
              /\ GetCertainty' = 0
              /\ ~LockCondition(gate_open', GetCertainty')
      ]_vars

\* C11 witness: in the silence after a tone whose crossings were accepted
\* the filters are at rest and certainty, on its way down to 0, has fallen
\* below 0.85
C11_Witness ==
    /\ SilentAtRest
    /\ src_tail < MaxSilence
    /\ g_rises >= 2
    /\ GetFreq # InitFreq
    /\ GetCertainty > 0
    /\ GetCertainty < Confident

\* C17: the gain moves toward its target by 1% of the remaining distance
\* per sample when the target is above the gain and by 0.01% otherwise
\* (or lands on the target), and so it needs strictly fewer samples to
\* settle after the target has stepped from 0 to 1 than after it has stepped
\* from 1 to 0: when the release has lasted as many samples as the attack
\* needed, the gain has not settled yet.
C17_AttackFasterThanRelease ==
    [][ Sampled =>
        /\ (target_vca' > current_vca /\ current_vca' # target_vca') =>
              current_vca' - current_vca = (target_vca' - current_vca) \div 100
        /\ (target_vca' <= current_vca /\ current_vca' # target_vca') =>
              current_vca - current_vca'
                 = ((current_vca - target_vca') + 9999) \div 10000
        /\ (vca_goal' = 0 /\ vca_from' = ONE /\ att_n' > 0
              /\ vca_n' <= att_n') => ~VcaSettled(current_vca', 0)
      ]_vars

\* C17 witness: the gain has settled at 1 after the target stepped from 0 to
\* 1, the target has stepped from 1 to 0, and the release has lasted as many
\* samples as the attack needed
C17_Witness ==
    /\ vca_goal = 0 /\ vca_from = ONE
    /\ att_n > 0
    /\ vca_n = att_n
    /\ current_vca < ONE
    /\ ~VcaSettled(current_vca, 0)

\* the gain after one sample of release toward 0
Faded(v) == MulQ(v, 9999, 10000)

\* C19 as stated: on every sample where the lock condition is false the
\* gain does not increase; it becomes 0.9999 times its value or exactly 0,
\* and it goes from a positive value to exactly 0 in one sample only from a
\* value below 1e-6.
C19_Original ==
    [][ (Sampled /\ ~LockedNext) =>
        /\ current_vca' <= current_vca
        /\ current_vca' \in {Faded(current_vca), 0}
        /\ (current_vca > 0 /\ current_vca' = 0) => current_vca < DenormFloor
      ]_vars

\* C19: on every sample where the lock condition is false the gain does not
\* increase; it becomes 0.9999 times its value, or exactly 0 when that
\* product is below 1e-6: so the last positive value of a fading gain is one
\* whose product with 0.9999 is below 1e-6, a value at or just above 1e-6
\* included.
C19_FadeOut ==
    [][ (Sampled /\ ~LockedNext) =>
        /\ current_vca' <= current_vca
        /\ current_vca' \in {Faded(current_vca), 0}
        /\ (current_vca' = 0) <=> (Faded(current_vca) < DenormFloor)
      ]_vars

\* C19 witness: a gain that a locked onset had raised has faded, with the
\* lock condition false, down to exactly 0
C19_Witness ==
    /\ ~LockCondition(gate_open, GetCertainty)
    /\ last_target_midi # 60 * MidiOne
    /\ vca_from > 0
    /\ target_vca = 0
    /\ current_vca = 0

\* a value of the unit range
InUnit(x) == x >= 0 /\ x <= ONE

\* C21: whatever the six ADC channels read, values outside [0, 1] included,
\* each knob value the callback works with is the reading clamped to [0, 1];
\* so the five smoothed knob values stay within [0, 1] in every reachable
\* state, and the scale index is floor(scale knob * 5.99), one of 0..5, an
\* index of the scale table.
C21_KnobRange ==
    /\ \A j \in KnobNumbers :
          /\ KnobState.knob[j] = Max(0, Min(ONE, adc_in[j]))
          /\ InUnit(KnobState.knob[j])
    /\ \A j \in 1..5 : InUnit(KnobState.smooth[j])
    /\ current_scale = MulQ(scale_knob, 599, 100) \div ONE
    /\ current_scale \in 0..5
    /\ current_scale + 1 \in DOMAIN scales

\* C21 witness: the scale knob has read above 1 and the scale index is 5,
\* and in the block before the gate knob had read below 0
C21_Witness ==
    /\ pc = "loop"
    /\ adc_in[6] > ONE
    /\ scale_knob = ONE
    /\ current_scale = 5
    /\ gate_knob = 0
    /\ smooth_gate < ONE \div 10

\* a step that ends a block: the callback returns
BlockEnds == pc = "loop" /\ pc' = "idle"

\* C22 as stated: the indicator is written once per block, at its end, and
\* it is written true if and only if the gate is open and certainty is above
\* 0.85 in the state at the end of that block.
C22_Original ==
    [][ /\ BlockEnds => (led' <=> (gate_open /\ GetCertainty > Confident))
        /\ ~BlockEnds => led' = led
      ]_vars

\* C22: the indicator is written once per block, at its end; it is written
\* true if and only if the gate was open and certainty above 0.85 on at
\* least one sample of that block; and when it is written false, the gate is
\* not open with certainty above 0.85 in the state at the end of the block.
C22_LockedIndicator ==
    [][ /\ BlockEnds =>
             /\ led' <=> blk_locked
             /\ ~led' => ~(gate_open /\ GetCertainty > Confident)
        /\ ~BlockEnds => led' = led
      ]_vars

\* C22 witness: the indicator has been written true at the end of a block
\* whose first sample was locked and whose last sample closed the gate
C22_Witness ==
    /\ pc = "idle"
    /\ led
    /\ blk_locked
    /\ ~gate_open
    /\ GetCertainty > Confident

\* a value that is exactly zero or of magnitude at least 1e-6
Floored(x) == x = 0 \/ Abs(x) >= DenormFloor

\* C23: in every reachable state each recursively updated variable of the
\* core (the DC blocker's memory, the low-pass memory, certainty, the VCA
\* gain and the five knob smoothers) is exactly zero or of magnitude at
\* least 1e-6.
C23_DenormalFloor ==
    /\ Floored(dc_block_)
    /\ Floored(filtered_in_)
    /\ Floored(certainty_)
    /\ Floored(current_vca)
    /\ \A j \in 1..5 : Floored(KnobState.smooth[j])

\* the parameters the DSP works with in a block, for a knob state st: glide
\* time, filter cutoff, mix, the two gate thresholds, vibrato depth and the
\* scale index
DspParams(st) ==
    <<st.htime, st.cutoff, st.smooth[3], GateThreshOn(st.smooth[4]),
      GateThreshOff(GateThreshOn(st.smooth[4])), st.vib, st.scale>>

\* C24: two runs that have executed the same number of blocks and whose
\* five smoothed knob values agree work with the same DSP parameters (glide
\* time, filter cutoff, mix, gate thresholds, vibrato depth, scale index),
\* whatever their raw knob readings are.
C24_SmoothedOnly ==
    (twin.smooth = KnobState.smooth) => DspParams(twin) = DspParams(KnobState)

\* C25: the first rising crossing after Init only arms the detector: until
\* the second rising crossing the frequency estimate is the initial one and
\* certainty is 0, however many samples have passed since Init; and every
\* period the detector accepts is the number of samples between a rising
\* crossing and the next rising crossing.
C25_Arming ==
    /\ (g_rises <= 1) => (freq_ = InitFreq /\ certainty_ = 0)
    /\ (ev = "accept") => (g_rises >= 2 /\ new_freq = NewFreq(g_period))

\* the note m (a whole number of semitones) is a degree of the scale s in
\* some octave
OnScale(m, s) == \E n \in 1..7 : (m - scales[s + 1][n]) % 12 = 0

\* C26: for the major and the minor scale (indexes 1 and 2) and a detected
\* frequency exactly on a note of the band that is a degree of the scale,
\* the quantized harmony is a degree of that scale 3 or 4 semitones above
\* the note: 4 when the major third is in the scale, 3 when it is not.
C26_DiatonicThirds ==
    \A m \in Notes :
        ( /\ Quantized /\ q_fund
          /\ current_scale \in {1, 2}
          /\ GetFreq = NoteFreq(m)
          /\ OnScale(m, current_scale) ) =>
            /\ closest \in {(m + 3) * MidiOne, (m + 4) * MidiOne}
            /\ closest % MidiOne = 0
            /\ OnScale(closest \div MidiOne, current_scale)
            /\ (closest = (m + 3) * MidiOne)
                  <=> ~OnScale(m + 4, current_scale)

\* C26 witness: in the major scale the harmony of D5, whose major third F#
\* is not in the scale, is the minor third F5
C26_Witness ==
    /\ q_pc = "near" /\ q_fund
    /\ current_scale = 1
    /\ GetFreq = NoteFreq(74)
    /\ raw_harm = 78 * MidiOne
    /\ closest = 77 * MidiOne

\* C27: in every reachable state GetFreq() is strictly between 60 Hz and
\* 1500 Hz: it starts at 440 Hz and changes only to a value between itself
\* and a candidate strictly inside the band.  So the argument of ftom is
\* positive, and for each of the six scales the raw harmony (ftom of
\* GetFreq() plus 4 or 7 semitones) lies between the lowest and the highest
\* candidate of the search.
C27_FreqBand ==
    /\ []( /\ GetFreq > FreqMin /\ GetFreq < FreqMax
           /\ \A s \in 0..5 :
                 LET raw == ftom(GetFreq) + ((IF s >= 3 THEN 7 ELSE 4) * MidiOne)
                 IN  /\ raw >= (scales[s + 1][1]) * MidiOne
                     /\ raw <= (scales[s + 1][15] + 48) * MidiOne )
    /\ [][ (Processed /\ freq_' # freq_) =>
             /\ new_freq' > FreqMin /\ new_freq' < FreqMax
             /\ freq_' >= Min(freq_, new_freq') - 1
             /\ freq_' <= Max(freq_, new_freq')
         ]_vars

\* C27 witness: a tone of 60.075 Hz (period 799) has drawn GetFreq() from
\* 440 Hz to below 61 Hz
C27_Witness ==
    /\ ev = "accept"
    /\ new_freq = NewFreq(799)
    /\ GetFreq < 61 * FreqOne
    /\ GetFreq > FreqMin

\* C28: the detector's sample counter stays within the range of int for
\* every input, an endless silence included: it is never negative, and every
\* call either adds to it or restarts it at 1; it never wraps around.
C28_CounterRange ==
    [][ /\ samples_since_last_' >= 0
        /\ \/ samples_since_last_' = 1
           \/ samples_since_last_' > samples_since_last_
      ]_vars

\* C29: from start-up until the first sample on which the gate is open and
\* certainty is above 0.85, the VCA gain is exactly 0 on every sample, the
\* harmony term is 0 and both output samples are input * (1 - mix).
C29_SilentUntilLock ==
    [][ /\ ~ever_locked' => current_vca' = 0
        /\ (Sampled /\ ~ever_locked') =>
              /\ target_vca' = 0
              /\ harm_sig' = 0
              /\ out0' = Mul(prev_in_', ONE - smooth_mix')
              /\ out1' = out0'
      ]_vars

\* C29 witness: before the first lock the gate is open on a loud envelope,
\* the detector is not yet confident, and a nonzero input sample has gone
\* out dry
C29_Witness ==
    /\ ~ever_locked
    /\ pc = "loop" /\ i > 0
    /\ gate_open /\ env_out = ONE
    /\ GetCertainty <= Confident
    /\ current_vca = 0 /\ harm_sig = 0
    /\ prev_in_ # 0
    /\ out0 = Mul(prev_in_, ONE - smooth_mix) /\ out0 # 0
    /\ out1 = out0

\* C30: after every sample on which the gate is open and certainty is above
\* 0.85, last_target_midi is the note quantized on that sample (the margin
\* of half a semitone never holds back a different note), and in every
\* reachable state last_target_midi is a whole number of semitones.
C30_TargetIsCandidate ==
    [][ /\ last_target_midi % MidiOne = 0
        /\ last_target_midi' % MidiOne = 0
        /\ (Sampled /\ LockedNext) =>
              /\ closest' = Quantize(RawHarm(GetFreq', current_scale), current_scale)
              /\ last_target_midi' = closest'
      ]_vars

\* C30 witness: a locked sample in the block after the first lock has
\* committed a note other than the initial target
C30_Witness ==
    /\ pc = "loop" /\ i > 0
    /\ gate_open /\ GetCertainty > Confident
    /\ blk_locked /\ led
    /\ closest = Quantize(RawHarm(GetFreq, current_scale), current_scale)
    /\ last_target_midi = closest
    /\ last_target_midi # 60 * MidiOne
    /\ target_vca > 0 /\ current_vca > 0

\* the lock condition as the last sample left it
Unlocked == ~LockCondition(gate_open, GetCertainty)

\* C31: if from some point on the lock condition (gate open and certainty
\* above 0.85) is false on every sample, the VCA gain eventually becomes
\* exactly 0, falling on every sample until then; and a gain of 0 stays 0
\* until a sample on which the lock condition holds.
C31_EventuallySilent ==
    /\ (<>[]Unlocked) => <>[](current_vca = 0)
    /\ [][ /\ (Sampled /\ ~LockedNext /\ current_vca > 0) =>
                 current_vca' < current_vca
           /\ (current_vca = 0 /\ ~(Sampled /\ LockedNext)) =>
                 current_vca' = 0
         ]_vars

\* C31 witness: the input has ended with the lock condition false, and the
\* gain that a locked onset had raised has come down to exactly 0
C31_Witness ==
    /\ pc = "idle" /\ SourceLeft = 0
    /\ Unlocked
    /\ ever_locked
    /\ vca_from > 0
    /\ current_vca = 0

====
